---- MODULE Spec2Model ----
(***************************************************************************)
(* Model of the HTML report utilities of github_actions_poc:               *)
(*   src/fix_downloaded_reports.py  fix_html_report, fix_report_directory, *)
(*                                  main                                   *)
(*   src/report_generator.py        setup_html_report, finalize_html_report*)
(*   src/main.py                    run                                    *)
(*                                                                         *)
(* Text is a sequence of tokens.  Every character the regular expressions  *)
(* of the source test for ( ")", ";", "}", white space ) is a token of its *)
(* own, so matching on tokens is matching on characters.                   *)
(*                                                                         *)
(*   token        text                                                     *)
(*   S2, S4       2 spaces, 4 spaces          NL   line feed               *)
(*   CMT          // Fetch and display results                             *)
(*   FETCH_G      fetch('temp_results.json'                                *)
(*   FETCH_T      fetch('temp_results_20251115_135705.json'                *)
(*   FETCH_X      fetch('results.json'                                     *)
(*   THEN_JSON    .then(response => response.json(                         *)
(*   THEN_DATA    .then(data => {                                          *)
(*   ASSIGN_DATA  allResults = data                                        *)
(*   UPDATE       updateSummary(        DISPLAY   displayResults(          *)
(*   HIDE_A       document.getElementById('loading'                        *)
(*   HIDE_B       .style.display = 'none'                                  *)
(*   CATCH_OPEN   .catch(error => {                                        *)
(*   CERR         console.error('Error loading results:', error            *)
(*   INNER        .innerHTML = (with its trailing space)                   *)
(*   ERRDIV       '<div class="no-results"><h3>...</p></div>'              *)
(*   MARK         // Data embedded directly to avoid CORS issues when      *)
(*                viewing locally                                          *)
(*   ALLRESULTS   allResults = (with its trailing space)                   *)
(*   RPAREN ) SEMI ; RBRACE } LBRACE { LBRACKET [ RBRACKET ] COMMA ,       *)
(*   KEY          "user_prompt": (with its trailing space)                 *)
(*   QT "   BS \   n n   u u   00e9 00e9   UNI e-acute                     *)
(*   SCRIPT_OPEN  <script>   SCRIPT_CLOSE  </script>   TEXT  <p>report</p> *)
(***************************************************************************)
EXTENDS Integers, Sequences, FiniteSets

\* ---------------------------------------------------------------- bounds
MaxStrLen == 1
MaxRecords == 1
MaxCalls == 2
MaxDocs == 3
NumTests == 3

\* ------------------------------------------------------- sequence helpers
Range(s) == {s[k] : k \in 1..Len(s)}

Slice(s, a, b) == [k \in 1..(IF b >= a THEN b - a + 1 ELSE 0) |-> s[a + k - 1]]

IsPrefix(p, s) == Len(p) <= Len(s) /\ \A k \in 1..Len(p) : s[k] = p[k]

IsSuffix(p, s) ==
    Len(p) <= Len(s) /\ \A k \in 1..Len(p) : s[Len(s) - Len(p) + k] = p[k]

\* pat occurs in s starting at index i
OccursAt(s, pat, i) ==
    i + Len(pat) - 1 <= Len(s) /\ \A k \in 1..Len(pat) : s[i + k - 1] = pat[k]

\* Python's `pat in s`
Contains(s, pat) == \E i \in 1..Len(s) : OccursAt(s, pat, i)

\* least index j >= i with s[j] in T, 0 when there is none
First(s, i, T) ==
    IF \E j \in i..Len(s) : s[j] \in T
    THEN CHOOSE j \in i..Len(s) : s[j] \in T /\ \A k \in i..j-1 : s[k] \notin T
    ELSE 0

\* regular expression \s : white-space tokens
IsSpace(t) == t \in {"S2", "S4", "NL"}

\* index just after the run of white space that starts at i  (greedy \s*)
SkipSpace(s, i) ==
    CHOOSE j \in i..Len(s)+1 :
        /\ \A k \in i..j-1 : IsSpace(s[k])
        /\ (j = Len(s) + 1 \/ ~IsSpace(s[j]))

\* ------------------------------------------------------------ json.dumps
Indent8 == <<"S4", "S4">>
Indent12 == <<"S4", "S4", "S4">>
Indent16 == <<"S4", "S4", "S4", "S4">>
Indent20 == <<"S4", "S4", "S4", "S4", "S4">>

\* characters a string field of a record may hold
Chars == {"n", "NL", "QT", "BS", "UNI"}

\* json.dumps of one character of a string (ensure_ascii is the default)
EscapeChar(c) ==
    CASE c = "NL"  -> <<"BS", "n">>
      [] c = "QT"  -> <<"BS", "QT">>
      [] c = "BS"  -> <<"BS", "BS">>
      [] c = "UNI" -> <<"BS", "u", "00e9">>
      [] OTHER     -> <<c>>

RECURSIVE EscapeString(_)
EscapeString(str) ==
    IF str = <<>> THEN <<>>
    ELSE EscapeChar(Head(str)) \o EscapeString(Tail(str))

\* one record, at indentation level 1 of indent=2
DumpRecord(rec) ==
    <<"S2", "LBRACE", "NL", "S4", "KEY", "QT">> \o EscapeString(rec.user_prompt)
        \o <<"QT", "NL", "S2", "RBRACE">>

RECURSIVE DumpRecords(_)
DumpRecords(data) ==
    IF Len(data) = 1 THEN DumpRecord(data[1])
    ELSE DumpRecord(Head(data)) \o <<"COMMA", "NL">> \o DumpRecords(Tail(data))

\* json.dumps(data, indent=2) of a list of records
json_dumps(data) ==
    IF data = <<>> THEN <<"LBRACKET", "RBRACKET">>
    ELSE <<"LBRACKET", "NL">> \o DumpRecords(data) \o <<"NL", "RBRACKET">>

\* ------------------------------------------------------------- json.load
\* the JSON results file: absent, unparseable, or holding a list of records
JsonAbsent == [kind |-> "absent", data |-> <<>>]
JsonMalformed == [kind |-> "malformed", data |-> <<>>]
JsonOf(data) == [kind |-> "data", data |-> data]

\* open(json_path) + json.load: the exception raised, or "ok"
json_load(json_file) ==
    CASE json_file.kind = "absent"    -> "FileNotFoundError"
      [] json_file.kind = "malformed" -> "JSONDecodeError"
      [] OTHER                        -> "ok"

\* ------------------------------------------ the data-loading fragment
\* the fetch fragment as the template holds it, for the fetch token f
FetchFragment(f) ==
    Indent8 \o <<"CMT", "NL">>
    \o Indent8 \o <<f, "RPAREN", "NL">>
    \o Indent12 \o <<"THEN_JSON", "RPAREN", "RPAREN", "NL">>
    \o Indent12 \o <<"THEN_DATA", "NL">>
    \o Indent16 \o <<"ASSIGN_DATA", "SEMI", "NL">>
    \o Indent16 \o <<"UPDATE", "RPAREN", "SEMI", "NL">>
    \o Indent16 \o <<"DISPLAY", "RPAREN", "SEMI", "NL">>
    \o Indent16 \o <<"HIDE_A", "RPAREN", "HIDE_B", "SEMI", "NL">>
    \o Indent12 \o <<"RBRACE", "RPAREN", "NL">>
    \o Indent12 \o <<"CATCH_OPEN", "NL">>
    \o Indent16 \o <<"CERR", "RPAREN", "SEMI", "NL">>
    \o Indent16 \o <<"HIDE_A", "RPAREN", "INNER", "NL">>
    \o Indent20 \o <<"ERRDIV", "SEMI", "NL">>
    \o Indent12 \o <<"RBRACE", "RPAREN", "SEMI">>

\* the literal fetch_pattern of finalize_html_report
fetch_pattern == FetchFragment("FETCH_G")

\* the f-string `replacement` of both embedders
replacement(json_str) ==
    Indent8 \o <<"MARK", "NL">>
    \o Indent8 \o <<"ALLRESULTS">> \o json_str \o <<"SEMI", "NL">>
    \o Indent8 \o <<"UPDATE", "RPAREN", "SEMI", "NL">>
    \o Indent8 \o <<"DISPLAY", "RPAREN", "SEMI", "NL">>
    \o Indent8 \o <<"HIDE_A", "RPAREN", "HIDE_B", "SEMI">>

\* -------------------------------- re: expansion of a replacement template
\* re.sub(pattern, repl, ...) with a string repl processes the backslash
\* escapes of repl: \\ is a backslash, \n a line feed, a backslash before an
\* ASCII letter that is no escape ( \u ) or at the end is an error, a
\* backslash before any other character stays.
RECURSIVE TemplateError(_)
TemplateError(t) ==
    IF t = <<>> THEN FALSE
    ELSE IF Head(t) = "BS"
         THEN IF Len(t) = 1 THEN TRUE
              ELSE IF t[2] = "u" THEN TRUE
              ELSE TemplateError(Tail(Tail(t)))
         ELSE TemplateError(Tail(t))

RECURSIVE ExpandTemplate(_)
ExpandTemplate(t) ==
    IF t = <<>> THEN <<>>
    ELSE IF Head(t) = "BS" /\ Len(t) >= 2
         THEN (CASE t[2] = "BS" -> <<"BS">>
                 [] t[2] = "n"  -> <<"NL">>
                 [] OTHER       -> <<"BS", t[2]>>)
              \o ExpandTemplate(Tail(Tail(t)))
         ELSE <<Head(t)>> \o ExpandTemplate(Tail(t))

\* ------------------------------------------------- the regular expressions
\* fetch\('temp_results[^']*\.json'  : the fetch tokens whose file name fits
IsResultsFetch(t) == t \in {"FETCH_G", "FETCH_T"}

\* \.catch\( [^stop]* close : a match of the tail that starts at the
\* CATCH_OPEN token k; [^stop]* cannot cross the first stop token after k, so
\* close must begin there (or just before it).  The index of the last token
\* matched, 0 when there is no match.
CatchTail(s, k, stop, close) ==
    LET r == First(s, k + 1, {stop})
        b == IF stop = close[1] THEN r ELSE r - (Len(close) - 1)
    IN  IF r # 0 /\ b > k /\ OccursAt(s, close, b) THEN b + Len(close) - 1 ELSE 0

\* .*? \.catch\( ... : the lazy scan stops at the first CATCH_OPEN at or after
\* index i whose tail matches; the end of the match, 0 when there is none
LazyToCatch(s, i, stop, close) ==
    LET ks == {k \in i..Len(s) : s[k] = "CATCH_OPEN" /\ CatchTail(s, k, stop, close) # 0}
    IN  IF ks = {} THEN 0
        ELSE CatchTail(s, CHOOSE k \in ks : \A m \in ks : k <= m, stop, close)

\* fix_html_report's fetch_pattern, from its comment token c on:
\*   // Fetch and display results\s*\n \s*fetch\('temp_results[^']*\.json'\)
\*   \s*\n .*?\.catch\([^}]*\}\);
\* The index of the last token matched, 0 when there is no match.
FixMatchEnd(s, c) ==
    LET f == SkipSpace(s, c + 1)
        g == SkipSpace(s, f + 2)
    IN  IF /\ s[c] = "CMT"
           /\ \E k \in c+1..f-1 : s[k] = "NL"
           /\ f + 1 <= Len(s)
           /\ IsResultsFetch(s[f])
           /\ s[f + 1] = "RPAREN"
           /\ \E k \in f+2..g-1 : s[k] = "NL"
        THEN LazyToCatch(s, g, "RBRACE", <<"RBRACE", "RPAREN", "SEMI">>)
        ELSE 0

\* the leading group (\s*) of fix_html_report's pattern: the match starts at
\* the first token of the white space that runs up to the comment token c,
\* no earlier than index from
FixMatchStart(s, c, from) ==
    CHOOSE q \in from..c :
        /\ \A k \in q..c-1 : IsSpace(s[k])
        /\ (q = from \/ ~IsSpace(s[q - 1]))

\* fetch_pattern.sub(repl, s): every match, left to right, becomes repl
RECURSIVE FixSub(_, _, _)
FixSub(s, from, repl) ==
    LET cs == {c \in from..Len(s) : s[c] = "CMT" /\ FixMatchEnd(s, c) # 0}
    IN  IF cs = {} THEN Slice(s, from, Len(s))
        ELSE LET c == CHOOSE x \in cs : \A y \in cs : x <= y
             IN  Slice(s, from, FixMatchStart(s, c, from) - 1) \o repl
                     \o FixSub(s, FixMatchEnd(s, c) + 1, repl)

\* finalize_html_report's fetch_regex matched at the fetch token f:
\*   fetch\('temp_results[^']*\.json'\)\s*\.then\(response => response\.json\(\)\)
\*   \s*\.then\(data => \{[^}]*allResults = data;[^}]*\}\)\s*\.catch\([^)]*\);
FetchRegexAt(s, f) ==
    LET t1 == SkipSpace(s, f + 2)
        t2 == SkipSpace(s, t1 + 3)
        rb == First(s, t2 + 1, {"RBRACE"})
        ct == SkipSpace(s, rb + 2)
    IN  /\ f + 1 <= Len(s) /\ IsResultsFetch(s[f]) /\ s[f + 1] = "RPAREN"
        /\ OccursAt(s, <<"THEN_JSON", "RPAREN", "RPAREN">>, t1)
        /\ t2 <= Len(s) /\ s[t2] = "THEN_DATA"
        /\ rb # 0
        /\ \E a \in t2+1..rb-2 : s[a] = "ASSIGN_DATA" /\ s[a + 1] = "SEMI"
        /\ rb + 1 <= Len(s) /\ s[rb + 1] = "RPAREN"
        /\ ct <= Len(s) /\ s[ct] = "CATCH_OPEN"
        /\ CatchTail(s, ct, "RPAREN", <<"RPAREN", "SEMI">>) # 0

\* re.search(fetch_regex, html_content, re.DOTALL)
FetchRegexSearch(s) == \E f \in 1..Len(s) : FetchRegexAt(s, f)

\* the pattern of finalize_html_report's re.sub, from its comment token c on:
\*   // Fetch and display results\s*fetch\('temp_results[^']*\.json'\)
\*   .*?\.catch\([^;]*\);
FinalizeMatchEnd(s, c) ==
    LET f == SkipSpace(s, c + 1)
    IN  IF /\ s[c] = "CMT"
           /\ f + 1 <= Len(s)
           /\ IsResultsFetch(s[f])
           /\ s[f + 1] = "RPAREN"
        THEN LazyToCatch(s, f + 2, "SEMI", <<"RPAREN", "SEMI">>)
        ELSE 0

\* re.sub(that pattern, repl, s, flags=re.DOTALL)
RECURSIVE FinalizeSub(_, _, _)
FinalizeSub(s, from, repl) ==
    LET cs == {c \in from..Len(s) : s[c] = "CMT" /\ FinalizeMatchEnd(s, c) # 0}
    IN  IF cs = {} THEN Slice(s, from, Len(s))
        ELSE LET c == CHOOSE x \in cs : \A y \in cs : x <= y
             IN  Slice(s, from, c - 1) \o repl
                     \o FinalizeSub(s, FinalizeMatchEnd(s, c) + 1, repl)

\* str.replace(pat, repl): every occurrence of pat, left to right
RECURSIVE StrReplace(_, _, _, _)
StrReplace(s, from, pat, repl) ==
    LET is == {i \in from..Len(s) : OccursAt(s, pat, i)}
    IN  IF is = {} THEN Slice(s, from, Len(s))
        ELSE LET i == CHOOSE x \in is : \A y \in is : x <= y
             IN  Slice(s, from, i - 1) \o repl
                     \o StrReplace(s, i + Len(pat), pat, repl)

\* ---------------------------------------------------------- the embedders
\* the outcome of one call: its return value, the document on disk after it,
\* and whether it opened the document for writing
Outcome(r, h, w) == [ret |-> r, html |-> h, wrote |-> w]

\* fix_html_report with the marker test moved before the read of the JSON file
fix_html_report_MarkerFirst(html_content, json_file) ==
    LET json_str == json_dumps(json_file.data)
        repl == replacement(json_str)
        updated_html == FixSub(html_content, 1, ExpandTemplate(repl))
    IN  IF "MARK" \in Range(html_content) THEN Outcome(TRUE, html_content, FALSE)
        ELSE IF json_load(json_file) # "ok" THEN Outcome(FALSE, html_content, FALSE)
        ELSE IF TemplateError(repl) THEN Outcome(FALSE, html_content, FALSE)
        ELSE IF updated_html = html_content THEN Outcome(FALSE, html_content, FALSE)
        ELSE Outcome(TRUE, updated_html, TRUE)

\* fix_html_report(html_path, json_path), html_content the document on disk
fix_html_report(html_content, json_file) ==
    LET json_str == json_dumps(json_file.data)
        repl == replacement(json_str)
        updated_html == FixSub(html_content, 1, ExpandTemplate(repl))
    IN  IF json_load(json_file) # "ok" THEN Outcome(FALSE, html_content, FALSE)
        ELSE IF "MARK" \in Range(html_content) THEN Outcome(TRUE, html_content, FALSE)
        ELSE IF TemplateError(repl) THEN Outcome(FALSE, html_content, FALSE)
        ELSE IF updated_html = html_content THEN Outcome(FALSE, html_content, FALSE)
        ELSE Outcome(TRUE, updated_html, TRUE)

\* finalize_html_report(html_path, json_path)
finalize_html_report(html_content, json_file) ==
    LET json_str == json_dumps(json_file.data)
        repl == replacement(json_str)
        literal == StrReplace(html_content, 1, fetch_pattern, repl)
        useRegex == ~Contains(html_content, fetch_pattern) /\ FetchRegexSearch(html_content)
        updated_html == IF useRegex
                        THEN FinalizeSub(html_content, 1, ExpandTemplate(repl))
                        ELSE literal
    IN  IF json_load(json_file) # "ok" THEN Outcome(FALSE, html_content, FALSE)
        ELSE IF useRegex /\ TemplateError(repl) THEN Outcome(FALSE, html_content, FALSE)
        ELSE Outcome(TRUE, updated_html, TRUE)

\* ------------------------------------------------------------ json.loads
\* what a reader of the embedded literal (json.loads, or the browser) makes
\* of it.  ParseFail stands for a syntax error.
ParseFail == [ok |-> FALSE, val |-> <<>>, next |-> 0]

\* the characters of a string, from index i (just after its opening quote)
RECURSIVE ParseString(_, _, _)
ParseString(s, i, acc) ==
    IF i > Len(s) THEN ParseFail
    ELSE CASE s[i] = "QT" -> [ok |-> TRUE, val |-> acc, next |-> i + 1]
           [] s[i] = "NL" -> ParseFail
           [] s[i] = "BS" ->
                IF i + 1 > Len(s) THEN ParseFail
                ELSE CASE s[i + 1] \in {"QT", "BS"} ->
                              ParseString(s, i + 2, Append(acc, s[i + 1]))
                       [] s[i + 1] = "n" ->
                              ParseString(s, i + 2, Append(acc, "NL"))
                       [] s[i + 1] = "u" /\ i + 2 <= Len(s) /\ s[i + 2] = "00e9" ->
                              ParseString(s, i + 3, Append(acc, "UNI"))
                       [] OTHER -> ParseFail
           [] OTHER -> ParseString(s, i + 1, Append(acc, s[i]))

\* the records of a list, from index i (the opening brace of a record)
RECURSIVE ParseRecords(_, _, _)
ParseRecords(s, i, acc) ==
    LET k == SkipSpace(s, i + 1)
        str == ParseString(s, k + 2, <<>>)
        b == SkipSpace(s, str.next)
        e == SkipSpace(s, b + 1)
    IN  IF /\ i <= Len(s) /\ s[i] = "LBRACE"
           /\ OccursAt(s, <<"KEY", "QT">>, k)
           /\ str.ok
           /\ b <= Len(s) /\ s[b] = "RBRACE"
           /\ e <= Len(s)
        THEN CASE s[e] = "RBRACKET" /\ e = Len(s) ->
                      [ok |-> TRUE, val |-> Append(acc, [user_prompt |-> str.val])]
               [] s[e] = "COMMA" ->
                      ParseRecords(s, SkipSpace(s, e + 1),
                                   Append(acc, [user_prompt |-> str.val]))
               [] OTHER -> [ok |-> FALSE, val |-> <<>>]
        ELSE [ok |-> FALSE, val |-> <<>>]

json_loads(s) ==
    IF Len(s) >= 2 /\ s[1] = "LBRACKET"
    THEN LET j == SkipSpace(s, 2)
         IN  IF j = Len(s) /\ s[j] = "RBRACKET" THEN [ok |-> TRUE, val |-> <<>>]
             ELSE ParseRecords(s, j, <<>>)
    ELSE [ok |-> FALSE, val |-> <<>>]

\* the literal assigned to allResults in document h: the tokens between
\* the first `allResults = ` and the `;` that ends the statement
EmbeddedLiteral(h) ==
    LET a == First(h, 1, {"ALLRESULTS"})
        e == First(h, a + 1, {"SEMI"})
    IN  IF a # 0 /\ e # 0 THEN Slice(h, a + 1, e - 1) ELSE <<>>

\* ------------------------------------------------------------ the inputs
\* strings of at most n characters
RECURSIVE Strings(_)
Strings(n) ==
    IF n = 0 THEN {<<>>}
    ELSE Strings(n - 1) \cup {Append(str, c) : str \in Strings(n - 1), c \in Chars}

\* a Result Record, reduced to one string field
Records == [user_prompt : Strings(MaxStrLen)]

\* lists of at most n records
RECURSIVE RecordLists(_)
RecordLists(n) ==
    IF n = 0 THEN {<<>>}
    ELSE RecordLists(n - 1) \cup {Append(l, r) : l \in RecordLists(n - 1), r \in Records}

JsonFiles == {JsonAbsent, JsonMalformed} \cup {JsonOf(d) : d \in RecordLists(MaxRecords)}

\* what a document holds between its prefix and its suffix
FragmentKinds == {"generic", "timestamped", "both", "drifted", "none", "embedded"}

FragmentOf(kind) ==
    CASE kind = "generic"     -> FetchFragment("FETCH_G")
      [] kind = "timestamped" -> FetchFragment("FETCH_T")
      [] kind = "both"        -> FetchFragment("FETCH_G") \o <<"NL">> \o FetchFragment("FETCH_T")
      [] kind = "drifted"     -> FetchFragment("FETCH_X")
      [] kind = "embedded"    -> replacement(json_dumps(<<>>))
      [] OTHER                -> <<"TEXT">>

Prefixes == {<<"SCRIPT_OPEN", "NL">>, <<"SCRIPT_OPEN">>, <<>>}

Suffixes == {<<"NL", "S4", "SCRIPT_CLOSE", "NL">>, <<>>}

Documents == [prefix : Prefixes, kind : FragmentKinds, suffix : Suffixes]

\* the text of a document
TextOf(d) == d.prefix \o FragmentOf(d.kind) \o d.suffix

\* ----------------------------------------------------------------- state
VARIABLES
    html,           \* embedder: the content of html_path on disk
    json_file,      \* embedder: the JSON results file at json_path
    doc,            \* embedder: the document html started as
    log,            \* embedder: one entry per call made so far
    root,           \* batch: what sys.argv[1] names
    tree,           \* batch: the directories holding an index.html
    pc,             \* batch: position of main
    idx,            \* batch: loop index in html_files
    successful,     \* batch: fix_report_directory's counter
    failed,         \* batch: fix_report_directory's counter
    exit_code,      \* batch: status passed to sys.exit
    batch_log,      \* batch: per document, what the loop did with it
    timestamp,      \* driver: datetime.now() formatted at the start of run
    template,       \* driver: state of templates/report_template.html
    run_pc,         \* driver: position of run
    run_index_html, \* driver: what setup_html_report returned
    index_html,     \* driver: content of run_dir/index.html
    file_name,      \* driver: name of the JSON results file in run_dir
    results,        \* driver: the in-memory list
    test_data,      \* driver: the record of the test case in flight
    i,              \* driver: loop index, the number of finished iterations
    disk,           \* driver: the JSON results file on disk
    pending         \* driver: an exception `except Exception` did not catch
                    \*         is passing through the finally block

varsEmbed == <<html, json_file, doc, log>>
varsBatch == <<root, tree, pc, idx, successful, failed, exit_code, batch_log>>
varsRun == <<timestamp, template, run_pc, run_index_html, index_html, file_name,
             results, test_data, i, disk, pending>>
vars == <<varsEmbed, varsBatch, varsRun>>

\* ---------------------------------------------------- embedder: one call
IdleEmbed ==
    /\ html = <<>>
    /\ json_file = JsonAbsent
    /\ doc = [prefix |-> <<>>, kind |-> "none", suffix |-> <<>>]
    /\ log = <<>>

IdleBatch ==
    /\ root = "noarg"
    /\ tree = <<>>
    /\ pc = "idle"
    /\ idx = 0
    /\ successful = 0
    /\ failed = 0
    /\ exit_code = -1
    /\ batch_log = <<>>

NoFile == [state |-> "absent", records |-> <<>>]
NoRecord == [index |-> 0, status |-> FALSE, error |-> FALSE]

IdleRun ==
    /\ timestamp = ""
    /\ template = "missing"
    /\ run_pc = "idle"
    /\ run_index_html = "None"
    /\ index_html = <<>>
    /\ file_name = <<>>
    /\ results = <<>>
    /\ test_data = NoRecord
    /\ i = 0
    /\ disk = NoFile
    /\ pending = FALSE

InitEmbed ==
    /\ doc \in Documents
    /\ html = TextOf(doc)
    /\ json_file \in JsonFiles
    /\ log = <<>>
    /\ IdleBatch
    /\ IdleRun

Call(op, r) ==
    /\ Len(log) < MaxCalls
    /\ html' = r.html
    /\ log' = Append(log, [op |-> op, ret |-> r.ret, wrote |-> r.wrote, before |-> html])
    /\ UNCHANGED <<json_file, doc, varsBatch, varsRun>>

Fix == Call("fix", fix_html_report(html, json_file))

Finalize == Call("finalize", finalize_html_report(html, json_file))

NextEmbed == Fix \/ Finalize

Spec == InitEmbed /\ [][NextEmbed]_vars

\* ------------------------------------------- batch: fix_downloaded_reports
\* a directory under the root that holds an index.html: the document, and
\* the first temp_results_*.json beside it (JsonAbsent when glob finds none)
BatchDocument(kind) ==
    TextOf([prefix |-> <<"SCRIPT_OPEN", "NL">>, kind |-> kind,
            suffix |-> <<"NL", "S4", "SCRIPT_CLOSE", "NL">>])

Dirs == [html : {BatchDocument(k) : k \in {"generic", "none", "embedded"}},
         json : {JsonAbsent, JsonMalformed, JsonOf(<<>>)}]

\* what report_path.glob("**/index.html") may list: at most n directories
RECURSIVE Trees(_)
Trees(n) ==
    IF n = 0 THEN {<<>>}
    ELSE Trees(n - 1) \cup {Append(t, d) : t \in Trees(n - 1), d \in Dirs}

InitBatch ==
    /\ root \in {"noarg", "missing", "file", "dir"}
    /\ tree \in (IF root = "dir" THEN Trees(MaxDocs) ELSE {<<>>})
    /\ pc = "main"
    /\ idx = 0
    /\ successful = 0
    /\ failed = 0
    /\ exit_code = -1
    /\ batch_log = <<>>
    /\ IdleEmbed
    /\ IdleRun

\* main up to its call of fix_report_directory, and fix_report_directory up
\* to its loop: the usage error, the two directory checks, the glob
Scan ==
    /\ pc = "main"
    /\ IF root = "noarg"
       THEN pc' = "exited" /\ exit_code' = 1
       ELSE /\ exit_code' = exit_code
            /\ pc' = IF root = "dir" /\ tree # <<>> THEN "loop" ELSE "summary"
    /\ idx' = 1
    /\ successful' = 0
    /\ failed' = 0
    /\ UNCHANGED <<root, tree, batch_log, varsEmbed, varsRun>>

\* the loop of fix_report_directory leaving at the first failure
ProcessDocument_Break ==
    /\ pc = "loop"
    /\ LET d == tree[idx]
           r == fix_html_report(d.html, d.json)
           called == d.json # JsonAbsent
           ok == called /\ r.ret
       IN  /\ successful' = IF ok THEN successful + 1 ELSE successful
           /\ failed' = IF ok THEN failed ELSE failed + 1
           /\ tree' = IF called THEN [tree EXCEPT ![idx].html = r.html] ELSE tree
           /\ batch_log' = Append(batch_log,
                  [index |-> idx, called |-> called, before |-> d.html,
                   counted |-> IF ok THEN "success" ELSE "failure"])
           /\ pc' = IF idx = Len(tree) \/ ~ok THEN "summary" ELSE "loop"
    /\ idx' = idx + 1
    /\ UNCHANGED <<root, exit_code, varsEmbed, varsRun>>

\* one iteration of the loop of fix_report_directory
ProcessDocument ==
    /\ pc = "loop"
    /\ LET d == tree[idx]
           r == fix_html_report(d.html, d.json)
           called == d.json # JsonAbsent
           ok == called /\ r.ret
       IN  /\ successful' = IF ok THEN successful + 1 ELSE successful
           /\ failed' = IF ok THEN failed ELSE failed + 1
           /\ tree' = IF called THEN [tree EXCEPT ![idx].html = r.html] ELSE tree
           /\ batch_log' = Append(batch_log,
                  [index |-> idx, called |-> called, before |-> d.html,
                   counted |-> IF ok THEN "success" ELSE "failure"])
    /\ idx' = idx + 1
    /\ pc' = IF idx = Len(tree) THEN "summary" ELSE "loop"
    /\ UNCHANGED <<root, exit_code, varsEmbed, varsRun>>

\* main exiting with 1 when nothing was processed
Exit_NothingProcessedFails ==
    /\ pc = "summary"
    /\ exit_code' = IF failed = 0 /\ successful > 0 THEN 0 ELSE 1
    /\ pc' = "exited"
    /\ UNCHANGED <<root, tree, idx, successful, failed, batch_log, varsEmbed, varsRun>>

\* main after fix_report_directory returned: the summary and sys.exit
Exit ==
    /\ pc = "summary"
    /\ exit_code' = IF failed = 0 THEN 0 ELSE 1
    /\ pc' = "exited"
    /\ UNCHANGED <<root, tree, idx, successful, failed, batch_log, varsEmbed, varsRun>>

NextBatch == Scan \/ ProcessDocument \/ Exit

SpecBatch == InitBatch /\ [][NextBatch]_vars

\* ------------------------------------------------------ driver: main.run
Timestamps == {"20251115_135705", "20260101_000000"}

\* templates/report_template.html: the document finalize_html_report's
\* literal fetch_pattern expects, fetching the generic temp_results.json
Template == BatchDocument("generic")

\* the file a fetch token asks for
FetchTarget(t) ==
    CASE t = "FETCH_G" -> <<"temp_results", ".json">>
      [] t = "FETCH_T" -> <<"temp_results_", "20251115_135705", ".json">>
      [] OTHER         -> <<"results", ".json">>

\* setup_html_report(base_report_dir, run_dir, timestamp): the path returned
\* and the content of run_dir/index.html afterwards (<<>>: no such file)
setup_html_report(tmpl, stamp) ==
    CASE tmpl = "present" -> [path |-> "index.html", index_html |-> Template]
      [] OTHER            -> [path |-> "None", index_html |-> <<>>]

InitRun ==
    /\ timestamp \in Timestamps
    /\ template \in {"present", "missing", "unreadable"}
    /\ run_pc = "start"
    /\ run_index_html = "None"
    /\ index_html = <<>>
    /\ file_name = <<>>
    /\ results = <<>>
    /\ test_data = NoRecord
    /\ i = 0
    /\ disk = NoFile
    /\ pending = FALSE
    /\ IdleEmbed
    /\ IdleBatch

\* run up to its loop: the report directory, the template copy, file_name
Provision ==
    /\ run_pc = "start"
    /\ LET r == setup_html_report(template, timestamp)
       IN  run_index_html' = r.path /\ index_html' = r.index_html
    /\ file_name' = <<"temp_results_", timestamp, ".json">>
    /\ run_pc' = "try"
    /\ UNCHANGED <<timestamp, template, results, test_data, i, disk, pending,
                   varsEmbed, varsBatch>>

\* the try/except of one iteration.  The test case passes, fails, or raises
\* an Exception that line 62 catches: test_data is the record of test i.  Or
\* it raises a KeyboardInterrupt or SystemExit, which `except Exception` does
\* not catch: test_data keeps what the iteration before left in it, and the
\* exception waits while the finally block runs.
RunTest ==
    /\ run_pc = "try"
    /\ \E outcome \in {"pass", "fail", "raise", "interrupt"} :
           IF outcome = "interrupt"
           THEN test_data' = test_data /\ pending' = TRUE
           ELSE /\ test_data' = [index |-> i, status |-> outcome = "pass",
                                 error |-> outcome = "raise"]
                /\ pending' = FALSE
    /\ run_pc' = "append"
    /\ UNCHANGED <<timestamp, template, run_index_html, index_html, file_name,
                   results, i, disk, varsEmbed, varsBatch>>

\* finally: results.append(test_data).  In the first iteration an
\* interrupted try has bound no test_data: the line raises UnboundLocalError
\* and run ends with nothing appended.
AppendResult ==
    /\ run_pc = "append"
    /\ IF pending /\ i = 0
       THEN results' = results /\ run_pc' = "crashed"
       ELSE results' = Append(results, test_data) /\ run_pc' = "open"
    /\ UNCHANGED <<timestamp, template, run_index_html, index_html, file_name,
                   test_data, i, disk, pending, varsEmbed, varsBatch>>

\* finally: open(file_name, 'w') creates or truncates the file
OpenResults ==
    /\ run_pc = "open"
    /\ disk' = [state |-> "truncated", records |-> <<>>]
    /\ run_pc' = "dump"
    /\ UNCHANGED <<timestamp, template, run_index_html, index_html, file_name,
                   results, test_data, i, pending, varsEmbed, varsBatch>>

\* finally: json.dump(results, file_system, indent=2) and the close of the
\* file; then the next iteration or the end of the loop, or, with an
\* exception pending, the end of run with the iteration unfinished
DumpResults ==
    /\ run_pc = "dump"
    /\ disk' = [state |-> "complete", records |-> results]
    /\ IF pending
       THEN i' = i /\ run_pc' = "crashed"
       ELSE i' = i + 1 /\ run_pc' = IF i + 1 = NumTests THEN "summary" ELSE "try"
    /\ UNCHANGED <<timestamp, template, run_index_html, index_html, file_name,
                   results, test_data, pending, varsEmbed, varsBatch>>

\* the summary log and the return
Summary ==
    /\ run_pc = "summary"
    /\ run_pc' = "done"
    /\ UNCHANGED <<timestamp, template, run_index_html, index_html, file_name,
                   results, test_data, i, disk, pending, varsEmbed, varsBatch>>

\* the process is killed: nothing more is written
Crash ==
    /\ run_pc \in {"try", "append", "open", "dump", "summary"}
    /\ run_pc' = "crashed"
    /\ UNCHANGED <<timestamp, template, run_index_html, index_html, file_name,
                   results, test_data, i, disk, pending, varsEmbed, varsBatch>>

NextRun ==
    Provision \/ RunTest \/ AppendResult \/ OpenResults \/ DumpResults
        \/ Summary \/ Crash

SpecRun == InitRun /\ [][NextRun]_vars

\* ================================================================ claims
\* the last call of the embedder
Last == log[Len(log)]

\* the document started with the canonical fetch fragment, once
Canonical == doc.kind \in {"generic", "timestamped"}

\* number of tokens t in h
Count(h, t) == Cardinality({k \in 1..Len(h) : h[k] = t})

\* tokens that only the fetch chain holds
FetchChainTokens ==
    {"CMT", "FETCH_G", "FETCH_T", "FETCH_X", "THEN_JSON", "THEN_DATA",
     "ASSIGN_DATA", "CATCH_OPEN", "CERR", "INNER", "ERRDIV"}

\* C1: after a successful embed (fix_html_report or finalize_html_report) of
\* a parseable list of records into a document holding the canonical
\* fragment, the literal assigned to allResults is json.dumps(data, indent=2)
\* and reading it back gives the records of the input.
C1_RoundTrip ==
    (Len(log) = 1 /\ Canonical /\ json_file.kind = "data" /\ Last.ret)
        => /\ EmbeddedLiteral(html) = json_dumps(json_file.data)
           /\ json_loads(EmbeddedLiteral(html)) = [ok |-> TRUE, val |-> json_file.data]

\* C2: an embed into a document with no recognizable fragment and no marker,
\* with a parseable JSON file, returns False and leaves the document as it
\* was.
C2_PatternMiss ==
    (Len(log) = 1 /\ doc.kind \in {"none", "drifted"} /\ json_file.kind = "data")
        => /\ Last.ret = FALSE
           /\ html = Last.before

\* C5: a successful embed into a document holding the canonical fragment
\* (generic or timestamped file name) leaves no token of the fetch chain in
\* the document, and the marker, the assignment and the three calls once.
C5_WholeFragment ==
    (Len(log) = 1 /\ Canonical /\ Last.ret)
        => /\ Range(html) \cap FetchChainTokens = {}
           /\ \A t \in {"MARK", "ALLRESULTS", "UPDATE", "DISPLAY", "HIDE_B", "HIDE_A"} :
                  Count(html, t) = 1
           /\ Count(html, "RPAREN") = 3
           /\ Count(html, "SEMI") = 4

\* C6: with a parseable JSON file, a second embed by the same function leaves
\* the document as the first left it; after a successful first run the second
\* returns True without opening the document for writing.
C6_Idempotent ==
    (Len(log) = 2 /\ log[1].op = log[2].op /\ json_file.kind = "data")
        => /\ html = log[2].before
           /\ log[1].ret => (log[2].ret /\ ~log[2].wrote)

\* C8: a successful embed changes the fragment only: the document written
\* starts with everything that preceded the fragment's comment line and ends
\* with everything that followed the closing of its catch branch.
C8_Frame ==
    (Len(log) = 1 /\ Canonical /\ Last.ret /\ Last.wrote)
        => /\ IsPrefix(doc.prefix, html)
           /\ IsSuffix(doc.suffix, html)
           /\ Len(html) >= Len(doc.prefix) + Len(doc.suffix)

\* C9: when the JSON file is absent or does not parse, every embed returns
\* False, never opens the document for writing, and the document stays as it
\* was, with or without the marker in it.
C9_MalformedData ==
    json_file.kind # "data"
        => /\ html = TextOf(doc)
           /\ \A k \in 1..Len(log) :
                  /\ log[k].ret = FALSE
                  /\ log[k].wrote = FALSE
                  /\ log[k].before = TextOf(doc)

C9_Witness ==
    /\ json_file = JsonMalformed
    /\ doc.kind = "embedded"
    /\ Len(log) = 2
    /\ log[1].op = "fix"
    /\ log[2].op = "finalize"

\* the documents main counted as failed, as successes
Failures == {k \in 1..Len(batch_log) : batch_log[k].counted = "failure"}
Successes == {k \in 1..Len(batch_log) : batch_log[k].counted = "success"}

\* C3 as stated: given a root argument, main exits with 0 exactly when at
\* least one document was processed and none failed, and with 1 otherwise
\* (no document found, root missing or not a directory included).
C3_ExitStatusAsStated ==
    (pc = "exited" /\ root # "noarg")
        => /\ exit_code \in {0, 1}
           /\ exit_code = 0 <=> (Len(batch_log) >= 1 /\ Failures = {})

\* C3 amended: given a root argument, main exits with 0 exactly when no
\* document failed, which includes the runs that processed nothing (no
\* index.html under the root, root missing, root not a directory), and with
\* 1 exactly when at least one document failed.
C3_ExitStatus ==
    (pc = "exited" /\ root # "noarg")
        => /\ exit_code \in {0, 1}
           /\ exit_code = 0 <=> Failures = {}
           /\ (root # "dir" \/ tree = <<>>) => (batch_log = <<>> /\ exit_code = 0)

C3_Witness ==
    /\ pc = "exited"
    /\ root \in {"missing", "file", "dir"}
    /\ tree = <<>>
    /\ exit_code = 0

\* C7: for a root directory with at least one index.html, when the loop has
\* ended every document was visited once and in order, whatever happened to
\* the ones before it; the two counters add up to the number of documents; a
\* document without a temp_results_*.json beside it is a failure for which
\* fix_html_report was not called; any other document is a success exactly
\* when fix_html_report returned True for it.
C7_BatchAggregation ==
    (pc \in {"summary", "exited"} /\ root = "dir" /\ tree # <<>>)
        => /\ Len(batch_log) = Len(tree)
           /\ successful + failed = Len(tree)
           /\ successful = Cardinality(Successes)
           /\ failed = Cardinality(Failures)
           /\ \A k \in 1..Len(batch_log) :
                  /\ batch_log[k].index = k
                  /\ batch_log[k].called = (tree[k].json # JsonAbsent)
                  /\ tree[k].json = JsonAbsent => batch_log[k].counted = "failure"
                  /\ tree[k].json # JsonAbsent =>
                         (batch_log[k].counted = "success"
                            <=> fix_html_report(batch_log[k].before, tree[k].json).ret)

\* two complete pairs after one HTML-only directory: (2, 1)
C7_Witness ==
    /\ pc = "exited"
    /\ Len(tree) = 3
    /\ tree[1].json = JsonAbsent
    /\ tree[2].json = JsonOf(<<>>)
    /\ tree[3].json = JsonOf(<<>>)
    /\ successful = 2
    /\ failed = 1

\* the fetch token of document h
FetchTokenOf(h) == h[First(h, 1, {"FETCH_G", "FETCH_T", "FETCH_X"})]

\* C4: once setup_html_report has returned a path, the fetch of
\* run_dir/index.html names the file the driver writes its results to,
\* temp_results_<timestamp>.json.
C4_RunSpecificFetch ==
    (run_pc # "start" /\ run_index_html # "None")
        => FetchTarget(FetchTokenOf(index_html)) = file_name

\* C10: each test case that has ended (passed, failed or raised) has appended
\* exactly one record, its own, and left the file equal to the whole list in
\* order; and at every point the file on disk holds the records of all test
\* cases finished before the one in flight.
C10_CrashLosesInFlightOnly ==
    /\ (run_pc \in {"try", "summary", "done"})
          => (Len(results) = i /\ (i >= 1 => disk = [state |-> "complete", records |-> results]))
    /\ \A k \in 1..Len(results) : results[k].index = k - 1
    /\ i >= 1 => /\ disk.state = "complete"
                 /\ IsPrefix(Slice(results, 1, i), disk.records)

====
